---- MODULE Spec2Model ----
(***************************************************************************)
(* Model of thanos32.py: the fetch / transform / cache pipeline of the     *)
(* roulette catalog server (get_brasilia_datetime, get_roll_color_char,    *)
(* catalogar_padroes, formatar_ranking_por_digito,                         *)
(* fetch_and_process_blaze_data and the get_grade_data endpoint).          *)
(*                                                                         *)
(* Python values are modelled as follows.                                  *)
(*   - an optional int (item.get('roll')) is a record [none, n];           *)
(*   - a created_at value is a record [kind, year, t, suffix, frac]; t is  *)
(*     the wall time of the text in minutes of the day;                    *)
(*   - a dict is a function whose domain is the set of keys present;       *)
(*   - the result of a call that may raise is a record [exc, val], exc     *)
(*     being "" when the call returns.                                     *)
(***************************************************************************)
EXTENDS Integers, Sequences, FiniteSets, TLC

(***************************************************************************)
(* Program constants                                                       *)
(***************************************************************************)
NUM_RESULTADOS_BUSCA == 200

CACHE_LIFETIME_SECONDS == 15

JANELA_PADROES == 90

\* utcoffset of America/Sao_Paulo for present-day dates, in minutes
BRASILIA_TZ == -180

(***************************************************************************)
(* Bounds of the model                                                     *)
(***************************************************************************)
MaxFeedLen == 3

MaxColorLen == 6

MaxTime == 40

NumRequests == 2

(***************************************************************************)
(* Python value helpers                                                    *)
(***************************************************************************)
None == [none |-> TRUE, n |-> 0]

Int_(n) == [none |-> FALSE, n |-> n]

Ok(v) == [exc |-> "", val |-> v]

Raise(e) == [exc |-> e, val |-> <<>>]

EMPTY_DICT == <<>>

Min(a, b) == IF a < b THEN a ELSE b

\* s[:n]
Slice(s, n) == SubSeq(s, 1, Min(Len(s), n))

\* d[k] += 1 on a defaultdict(int)
Incr(d, k) == IF k \in DOMAIN d THEN [d EXCEPT ![k] = @ + 1] ELSE d @@ (k :> 1)

\* d[k].append(x) on a defaultdict(list)
AppendTo(d, k, x) ==
    IF k \in DOMAIN d THEN [d EXCEPT ![k] = Append(@, x)] ELSE d @@ (k :> <<x>>)

\* the falsy created_at values: None (or a missing key) and the empty string
Truthy(created_at) == created_at.kind \notin {"None", "empty"}

(***************************************************************************)
(* get_brasilia_datetime (lines 41-57)                                     *)
(***************************************************************************)
SuffixOffset(suffix) ==
    CASE suffix = "+00:00" -> 0
      [] suffix = "+05:45" -> 345
      [] suffix = "-03:00" -> -180
      [] OTHER -> 0

\* the try block: the moment in Brasilia as minutes of the day, or the
\* exception the block raises
NormalizeBody(ts) ==
    IF ts.kind = "None" THEN Raise("AttributeError")
    ELSE IF ts.kind \in {"empty", "text"} THEN Raise("ValueError")
    ELSE LET suffix1 == IF ts.suffix = "Z" THEN "+00:00" ELSE ts.suffix
             \* with a fraction the text is cut at the '.', which drops the
             \* offset, and the value is taken as UTC
             utc == IF ts.frac THEN ts.t ELSE ts.t - SuffixOffset(suffix1)
         IN  IF ts.year = 1
                THEN Raise("OverflowError")
                ELSE Ok((utc + BRASILIA_TZ) % (24 * 60))

\* val = -1 stands for the None result
get_brasilia_datetime(ts) ==
    LET r == NormalizeBody(ts)
    IN  IF r.exc \in {"ValueError", "TypeError", "AttributeError"}
           THEN Ok(-1)
           ELSE r

Minute(t) == t % 60

(***************************************************************************)
(* get_roll_color_char (lines 59-67)                                       *)
(***************************************************************************)
\* a comparison of an int with None raises TypeError
LeqChain(lo, x, hi) ==
    IF x.none THEN Raise("TypeError") ELSE Ok(lo <= x.n /\ x.n <= hi)

get_roll_color_char(roll_number) ==
    IF (~roll_number.none) /\ roll_number.n = 0 THEN Ok("B")
    ELSE LET c1 == LeqChain(1, roll_number, 7)
         IN  IF c1.exc # "" THEN Raise(c1.exc)
             ELSE IF c1.val THEN Ok("R")
             ELSE LET c2 == LeqChain(8, roll_number, 14)
                  IN  IF c2.exc # "" THEN Raise(c2.exc)
                      ELSE IF c2.val THEN Ok("P")
                      ELSE Ok("?")

(***************************************************************************)
(* catalogar_padroes (lines 69-97)                                         *)
(***************************************************************************)
\* [get_roll_color_char(item.get('roll')) for item in l]: the list of the
\* characters, or the exception of the first call that raises
\* (the loops of this module run over a range lo..hi of positions, split in
\* halves: the positions are visited in increasing order and the first
\* exception ends the loop, as in the code, with a recursion of depth log n)
RECURSIVE CoresRange(_, _, _)
CoresRange(l, lo, hi) ==
    IF lo > hi THEN Ok(<<>>)
    ELSE IF lo = hi
         THEN LET c == get_roll_color_char(l[lo].roll)
              IN  IF c.exc # "" THEN Raise(c.exc) ELSE Ok(<<c.val>>)
    ELSE LET mid == (lo + hi) \div 2
             left == CoresRange(l, lo, mid)
         IN  IF left.exc # "" THEN left
             ELSE LET right == CoresRange(l, mid + 1, hi)
                  IN  IF right.exc # "" THEN right
                      ELSE Ok(left.val \o right.val)

Cores(l) == CoresRange(l, 1, Len(l))

IsRP(c) == c \in {"R", "P"}

\* [c for c in cores if c in ('R', 'P')]
Filtrar(cores) == SelectSeq(cores, IsRP)

StartsWith3(seq4, a, b, c) == seq4[1] = a /\ seq4[2] = b /\ seq4[3] = c

IncrIf(cond, d, k) == IF cond THEN Incr(d, k) ELSE d

\* the body of the for loop for one window (lines 81-95)
ContarJanela(cont, seq4) ==
    LET c1 == IncrIf(StartsWith3(seq4, "R", "R", "R"), cont, "R3+")
        c2 == IncrIf(StartsWith3(seq4, "P", "P", "P"), c1, "P3+")
        c3 == IncrIf(seq4 = <<"R", "R", "R", "R">>, c2, "R4+")
        c4 == IncrIf(seq4 = <<"P", "P", "P", "P">>, c3, "P4+")
        c5 == IncrIf(seq4 = <<"R", "P", "R", "P">>, c4, "Tira (4) R")
        c6 == IncrIf(seq4 = <<"P", "R", "P", "R">>, c5, "Tira (4) P")
        c7 == IncrIf(StartsWith3(seq4, "R", "R", "P"), c6, "2x1 R")
        c8 == IncrIf(StartsWith3(seq4, "P", "P", "R"), c7, "2x1 P")
    IN  c8

\* range(len(cores_filtradas) - 3), 0-based
UltimoInicio(cf) == Len(cf) - 4

\* for i in lo..hi (0-based) of the loop of line 80
RECURSIVE PadroesRange(_, _, _, _)
PadroesRange(cf, lo, hi, cont) ==
    IF lo > hi THEN Ok(cont)
    ELSE IF lo = hi THEN Ok(ContarJanela(cont, SubSeq(cf, lo + 1, lo + 4)))
    ELSE LET mid == (lo + hi) \div 2
             left == PadroesRange(cf, lo, mid, cont)
         IN  IF left.exc # "" THEN left
             ELSE PadroesRange(cf, mid + 1, hi, left.val)

PadroesLoop(cf, cont) == PadroesRange(cf, 0, UltimoInicio(cf), cont).val

catalogar_padroes(resultados_list) ==
    LET cores == Cores(Slice(resultados_list, JANELA_PADROES))
    IN  IF cores.exc # "" THEN Raise(cores.exc)
        ELSE LET cores_filtradas == Filtrar(cores.val)
             IN  IF Len(cores_filtradas) < 4 THEN Ok(EMPTY_DICT)
                 ELSE Ok(PadroesLoop(cores_filtradas, EMPTY_DICT))

(***************************************************************************)
(* formatar_ranking_por_digito (lines 99-114)                              *)
(***************************************************************************)
\* str(dt.minute % 10)
DigitoStr(t) == ToString(Minute(t) % 10)

\* the body of the for loop for one item (lines 104-112); an exception of
\* get_brasilia_datetime leaves the loop and the function
RankingItem(item, ranking) ==
    LET roll_number == item.roll
        created_at == item.created_at
    IN  IF (~roll_number.none) /\ roll_number.n = 0 /\ Truthy(created_at)
           THEN LET dt_brasilia == get_brasilia_datetime(created_at)
                IN  IF dt_brasilia.exc # "" THEN Raise(dt_brasilia.exc)
                    ELSE IF dt_brasilia.val # -1
                         THEN Ok(Incr(ranking, DigitoStr(dt_brasilia.val)))
                         ELSE Ok(ranking)
           ELSE Ok(ranking)

RECURSIVE RankingRange(_, _, _, _)
RankingRange(l, lo, hi, ranking) ==
    IF lo > hi THEN Ok(ranking)
    ELSE IF lo = hi THEN RankingItem(l[lo], ranking)
    ELSE LET mid == (lo + hi) \div 2
             left == RankingRange(l, lo, mid, ranking)
         IN  IF left.exc # "" THEN left
             ELSE RankingRange(l, mid + 1, hi, left.val)

formatar_ranking_por_digito(resultados_list) ==
    RankingRange(resultados_list, 1, Len(resultados_list), EMPTY_DICT)

(***************************************************************************)
(* fetch_and_process_blaze_data (lines 117-168)                            *)
(*                                                                         *)
(* An upstream response is a record [kind, records]:                       *)
(*   ConnectionError, Timeout   requests.get raises                        *)
(*   HTTPError                  raise_for_status raises (non-2xx status)   *)
(*   JSONDecodeError            the body is not JSON                       *)
(*   list                       the body is the list `records`             *)
(*   dict_records               the body is {"records": records}           *)
(*   dict_no_records            the body is an object with no "records"    *)
(*   scalar                     the body is a number or null               *)
(*   list_nondict               the body is a list of numbers              *)
(***************************************************************************)
\* (response.json() raises requests' JSONDecodeError, a RequestException and
\* a ValueError: one of the two handlers catches it)
RequestExceptions == {"ConnectionError", "Timeout", "HTTPError", "JSONDecodeError"}

EMPTY_PAYLOAD ==
    [grade_map |-> EMPTY_DICT, padroes |-> EMPTY_DICT,
     ranking_brancos_digito |-> EMPTY_DICT]

\* f"{roll_number}{color_char}"
FormattedRoll(n, color_char) == ToString(n) \o color_char

\* lines 124-130: the truncated list of records, or the exception raised
ResultsList(upstream) ==
    IF upstream.kind \in RequestExceptions THEN Raise(upstream.kind)
    ELSE IF upstream.kind \in {"dict_no_records", "scalar"} THEN Raise("TypeError")
    ELSE Ok(Slice(upstream.records, NUM_RESULTADOS_BUSCA))

\* the body of the for loop for one item (lines 133-146)
GradeItem(item, agrupamento) ==
    LET created_at == item.created_at
        roll_number == item.roll
    IN  IF Truthy(created_at) /\ ~roll_number.none
           THEN LET dt == get_brasilia_datetime(created_at)
                IN  IF dt.exc # "" THEN Raise(dt.exc)
                    ELSE IF dt.val = -1 THEN Ok(agrupamento)
                    ELSE LET color_char == get_roll_color_char(roll_number)
                         IN  IF color_char.exc # "" THEN Raise(color_char.exc)
                             ELSE Ok(AppendTo(agrupamento, DigitoStr(dt.val),
                                       FormattedRoll(roll_number.n, color_char.val)))
           ELSE Ok(agrupamento)

RECURSIVE GradeRange(_, _, _, _)
GradeRange(l, lo, hi, agrupamento) ==
    IF lo > hi THEN Ok(agrupamento)
    ELSE IF lo = hi THEN GradeItem(l[lo], agrupamento)
    ELSE LET mid == (lo + hi) \div 2
             left == GradeRange(l, lo, mid, agrupamento)
         IN  IF left.exc # "" THEN left
             ELSE GradeRange(l, mid + 1, hi, left.val)

GradeLoop(l) == GradeRange(l, 1, Len(l), EMPTY_DICT)

\* the try block (lines 124-161): the payload, or the exception raised
FetchBody(upstream) ==
    LET results_list == ResultsList(upstream)
    IN  IF results_list.exc # "" THEN Raise(results_list.exc)
        ELSE IF upstream.kind = "list_nondict" /\ results_list.val # <<>>
             THEN Raise("AttributeError")
        ELSE LET grade_map == GradeLoop(results_list.val)
             IN  IF grade_map.exc # "" THEN Raise(grade_map.exc)
                 ELSE LET padroes == catalogar_padroes(results_list.val)
                      IN  IF padroes.exc # "" THEN Raise(padroes.exc)
                          ELSE LET ranking == formatar_ranking_por_digito(results_list.val)
                               IN  IF ranking.exc # "" THEN Raise(ranking.exc)
                                   ELSE Ok([grade_map |-> grade_map.val,
                                            padroes |-> padroes.val,
                                            ranking_brancos_digito |-> ranking.val])

\* only the handler of RequestException, without "except Exception"
fetch_and_process_RequestOnly(upstream) ==
    LET r == FetchBody(upstream)
    IN  IF r.exc \in RequestExceptions THEN Ok(EMPTY_PAYLOAD) ELSE r

\* except requests.exceptions.RequestException / except Exception
fetch_and_process_blaze_data(upstream) ==
    LET r == FetchBody(upstream)
    IN  IF r.exc \in RequestExceptions THEN Ok(EMPTY_PAYLOAD)
        ELSE IF r.exc # "" THEN Ok(EMPTY_PAYLOAD)
        ELSE r

(***************************************************************************)
(* Inputs of the model                                                     *)
(***************************************************************************)
Rec(roll, created_at) == [roll |-> roll, created_at |-> created_at]

\* an ISO-8601 text of the year 2024 with wall time t (minutes of the day);
\* suffix is "Z" or an explicit offset (a text with neither offset nor
\* fraction is read by astimezone in the zone of the host, and is not among
\* the inputs)
Iso(t, suffix, frac) ==
    [kind |-> "iso", year |-> 2024, t |-> t, suffix |-> suffix, frac |-> frac]

\* "0001-01-01T00:00:00Z": parses, and its conversion to UTC-3 is out of range
TsYear1 == [kind |-> "iso", year |-> 1, t |-> 0, suffix |-> "Z", frac |-> FALSE]

TsNone == [kind |-> "None", year |-> 0, t |-> 0, suffix |-> "", frac |-> FALSE]

TsEmpty == [kind |-> "empty", year |-> 0, t |-> 0, suffix |-> "", frac |-> FALSE]

TsText == [kind |-> "text", year |-> 0, t |-> 0, suffix |-> "", frac |-> FALSE]

\* 12:03 and 12:23 as minutes of the day
T1203 == 12 * 60 + 3

T1223 == 12 * 60 + 23

SampleRecords ==
    { Rec(Int_(0), Iso(T1203, "Z", TRUE)),
      Rec(Int_(10), Iso(T1203, "Z", FALSE)),
      Rec(Int_(5), Iso(T1223, "+05:45", FALSE)),
      Rec(Int_(0), Iso(T1223, "+05:45", TRUE)),
      Rec(Int_(15), Iso(1, "+00:00", FALSE)),
      Rec(None, Iso(T1203, "Z", FALSE)),
      Rec(Int_(3), TsNone),
      Rec(Int_(0), TsText),
      Rec(Int_(0), TsEmpty),
      Rec(Int_(0), TsYear1) }

RecR == Rec(Int_(3), Iso(T1203, "Z", FALSE))

RecP == Rec(Int_(10), Iso(T1223 + 5, "Z", FALSE))

RecB == Rec(Int_(0), Iso(T1223, "Z", TRUE))

ColorRecords == {RecR, RecP, RecB}

TailRecords == {RecP, RecB, Rec(None, Iso(T1203, "Z", FALSE)), Rec(Int_(0), TsYear1)}

SeqsUpTo(S, n) == UNION {[1..k -> S] : k \in 0..n}

Pad(n, rec) == [i \in 1..n |-> rec]

PadLens == {JANELA_PADROES - 2, NUM_RESULTADOS_BUSCA - 2}

MixedFeeds == SeqsUpTo(SampleRecords, MaxFeedLen)

ColorFeeds == SeqsUpTo(ColorRecords, MaxColorLen)

LongFeeds == {Pad(n, RecR) \o tail : n \in PadLens, tail \in [1..4 -> TailRecords]}

Feeds == MixedFeeds \cup ColorFeeds \cup LongFeeds

Failure(kind) == [kind |-> kind, records |-> <<>>]

Upstreams ==
    {[kind |-> "list", records |-> f] : f \in Feeds}
    \cup {[kind |-> "dict_records", records |-> f] : f \in MixedFeeds}
    \cup {[kind |-> "list_nondict", records |-> f] : f \in {<<>>, <<RecR>>}}
    \cup {Failure(k) : k \in RequestExceptions \cup {"dict_no_records", "scalar"}}

RollArgs == {None} \cup {Int_(n) : n \in -2..17}

\* the feed of the end-to-end scenario, and a feed of four ClassA results
FeedE2E ==
    <<Rec(Int_(0), Iso(T1203, "Z", TRUE)), Rec(Int_(10), Iso(T1203, "Z", FALSE))>>

CacheUpstreams ==
    { Failure("ConnectionError"),
      [kind |-> "list", records |-> <<>>],
      [kind |-> "list", records |-> FeedE2E],
      [kind |-> "list", records |-> <<RecR, RecR, RecR, RecR>>] }

(***************************************************************************)
(* State                                                                   *)
(***************************************************************************)
VARIABLES
    now,           \* time.time(), in seconds
    CACHE,         \* CACHE['history']: [timestamp, data]
    populated,     \* lines 187-188 have run at least once
    last_fetch,    \* the last call of fetch_and_process_blaze_data by a get
    obs,           \* what the get_grade_data call that just returned did
    pc,            \* per request: its position in get_grade_data
    current_time,  \* per request: local of line 179
    last_update,   \* per request: local of line 180
    seen,          \* per request: the number of refreshes before line 180
    new_data,      \* per request: local of line 185
    response,      \* per request: response_data['data']
    refreshes,     \* the number of times line 188 has run
    roll_arg,      \* argument of a direct call of get_roll_color_char
    upstream,      \* upstream response of a direct call of the pipeline
    out            \* result of the direct call: [op, exc, val]

vars ==
    <<now, CACHE, populated, last_fetch, obs, pc, current_time, last_update,
      seen, new_data, response, refreshes, roll_arg, upstream, out>>

cacheVars == <<now, CACHE, populated, last_fetch, obs>>

reqVars == <<pc, current_time, last_update, seen, new_data, response, refreshes>>

fnVars == <<roll_arg, upstream, out>>

Requests == 1..NumRequests

NoObs ==
    [valid |-> FALSE, at |-> 0, calls |-> 0, failed |-> FALSE,
     fetched |-> EMPTY_DICT, resp |-> EMPTY_DICT,
     before |-> [timestamp |-> 0, data |-> EMPTY_DICT],
     before_populated |-> FALSE,
     before_fetch |-> [any |-> FALSE, at |-> 0, failed |-> FALSE]]

NoOut == [op |-> "none", exc |-> "", val |-> <<>>]

\* CACHE = {'history': {'timestamp': 0, 'data': {}}}
InitCache ==
    /\ CACHE = [timestamp |-> 0, data |-> EMPTY_DICT]
    /\ populated = FALSE
    /\ last_fetch = [any |-> FALSE, at |-> 0, failed |-> FALSE]
    /\ obs = NoObs

InitRequests ==
    /\ pc = [t \in Requests |-> "start"]
    /\ current_time = [t \in Requests |-> 0]
    /\ last_update = [t \in Requests |-> 0]
    /\ seen = [t \in Requests |-> 0]
    /\ new_data = [t \in Requests |-> EMPTY_DICT]
    /\ response = [t \in Requests |-> EMPTY_DICT]
    /\ refreshes = 0

InitFn ==
    /\ roll_arg = None
    /\ upstream = Failure("ConnectionError")
    /\ out = NoOut

(***************************************************************************)
(* get_grade_data (lines 175-201), one request at a time                   *)
(*                                                                         *)
(* Of the response only 'data' is modelled; timestamp_br and               *)
(* digito_minuto_atual are read from the clock and never from the cache.   *)
(***************************************************************************)
\* a refresh already at age = lifetime
IsExpired_AtLifetime(ct, lu) == (ct - lu) >= CACHE_LIFETIME_SECONDS

\* line 183
IsExpired(ct, lu) == (ct - lu) > CACHE_LIFETIME_SECONDS

\* a failed fetch stores its payload and leaves the timestamp alone
StoreResult_SuccessOnly(cache, nd, ct) ==
    IF nd = EMPTY_PAYLOAD
       THEN [cache EXCEPT !.data = nd]
       ELSE [timestamp |-> ct, data |-> nd]

\* lines 187-188
StoreResult(cache, nd, ct) == [timestamp |-> ct, data |-> nd]

Failed(u) == FetchBody(u).exc # ""

get_grade_data ==
    /\ LET ct == now
           lu == CACHE.timestamp
       IN  IF IsExpired(ct, lu)
              THEN \E u \in CacheUpstreams :
                     LET nd == fetch_and_process_blaze_data(u).val
                     IN  /\ CACHE' = StoreResult(CACHE, nd, ct)
                         /\ populated' = TRUE
                         /\ last_fetch' = [any |-> TRUE, at |-> ct, failed |-> Failed(u)]
                         /\ obs' = [valid |-> TRUE, at |-> ct, calls |-> 1,
                                    failed |-> Failed(u), fetched |-> nd,
                                    resp |-> CACHE'.data, before |-> CACHE,
                                    before_populated |-> populated,
                                    before_fetch |-> last_fetch]
              ELSE /\ UNCHANGED <<CACHE, populated, last_fetch>>
                   /\ obs' = [valid |-> TRUE, at |-> ct, calls |-> 0,
                              failed |-> FALSE, fetched |-> EMPTY_DICT,
                              resp |-> CACHE.data, before |-> CACHE,
                              before_populated |-> populated,
                              before_fetch |-> last_fetch]
    /\ UNCHANGED <<now, reqVars, fnVars>>

\* the clock advances between requests
Advance(d) ==
    /\ now + d <= MaxTime
    /\ now' = now + d
    /\ obs' = NoObs
    /\ UNCHANGED <<CACHE, populated, last_fetch, reqVars, fnVars>>

Tick == \E d \in 1..(CACHE_LIFETIME_SECONDS + 1) : Advance(d)

InitSeq ==
    /\ now \in 0..(CACHE_LIFETIME_SECONDS + 1)
    /\ InitCache
    /\ InitRequests
    /\ InitFn

NextSeq == get_grade_data \/ Tick

SpecSeq == InitSeq /\ [][NextSeq]_vars

(***************************************************************************)
(* get_grade_data served by concurrent requests (the threaded server of    *)
(* app.run): one step per read or write of the shared state                *)
(***************************************************************************)
\* line 179
ReadClock(t) ==
    /\ pc[t] = "start"
    /\ current_time' = [current_time EXCEPT ![t] = now]
    /\ pc' = [pc EXCEPT ![t] = "read_ts"]
    /\ UNCHANGED <<cacheVars, last_update, seen, new_data, response, refreshes, fnVars>>

\* line 180
ReadTimestamp(t) ==
    /\ pc[t] = "read_ts"
    /\ last_update' = [last_update EXCEPT ![t] = CACHE.timestamp]
    /\ seen' = [seen EXCEPT ![t] = refreshes]
    /\ pc' = [pc EXCEPT ![t] = "check"]
    /\ UNCHANGED <<cacheVars, current_time, new_data, response, refreshes, fnVars>>

\* line 183
CheckCache(t) ==
    /\ pc[t] = "check"
    /\ pc' = [pc EXCEPT ![t] =
                IF IsExpired(current_time[t], last_update[t]) THEN "fetch" ELSE "respond"]
    /\ UNCHANGED <<cacheVars, current_time, last_update, seen, new_data, response,
                   refreshes, fnVars>>

\* line 185
Fetch(t) ==
    /\ pc[t] = "fetch"
    /\ \E u \in CacheUpstreams :
         /\ new_data' = [new_data EXCEPT ![t] = fetch_and_process_blaze_data(u).val]
         /\ last_fetch' = [any |-> TRUE, at |-> current_time[t], failed |-> Failed(u)]
    /\ pc' = [pc EXCEPT ![t] = "store_data"]
    /\ UNCHANGED <<now, CACHE, populated, obs, current_time, last_update, seen,
                   response, refreshes, fnVars>>

\* line 187
StoreData(t) ==
    /\ pc[t] = "store_data"
    /\ CACHE' = [CACHE EXCEPT !.data = new_data[t]]
    /\ pc' = [pc EXCEPT ![t] = "store_ts"]
    /\ UNCHANGED <<now, populated, last_fetch, obs, current_time, last_update, seen,
                   new_data, response, refreshes, fnVars>>

\* line 188
StoreTimestamp(t) ==
    /\ pc[t] = "store_ts"
    /\ CACHE' = [CACHE EXCEPT !.timestamp = current_time[t]]
    /\ populated' = TRUE
    /\ refreshes' = refreshes + 1
    /\ pc' = [pc EXCEPT ![t] = "respond"]
    /\ UNCHANGED <<now, last_fetch, obs, current_time, last_update, seen, new_data,
                   response, fnVars>>

\* lines 194-201
Respond(t) ==
    /\ pc[t] = "respond"
    /\ response' = [response EXCEPT ![t] = CACHE.data]
    /\ pc' = [pc EXCEPT ![t] = "done"]
    /\ UNCHANGED <<cacheVars, current_time, last_update, seen, new_data, refreshes,
                   fnVars>>

\* the clock passes the lifetime of the cache while requests are served
TickLifetime == Advance(CACHE_LIFETIME_SECONDS + 1)

InitConc ==
    /\ now \in {0, CACHE_LIFETIME_SECONDS + 1}
    /\ InitCache
    /\ InitRequests
    /\ InitFn

NextConc ==
    \/ \E t \in Requests :
         \/ ReadClock(t)
         \/ ReadTimestamp(t)
         \/ CheckCache(t)
         \/ Fetch(t)
         \/ StoreData(t)
         \/ StoreTimestamp(t)
         \/ Respond(t)
    \/ TickLifetime

SpecConc == InitConc /\ [][NextConc]_vars

(***************************************************************************)
(* Direct calls of the pure functions on bounded inputs                    *)
(***************************************************************************)
HasRecords(u) == u.kind \in {"list", "dict_records"}

CallClassifier ==
    /\ out.op = "none"
    /\ LET r == get_roll_color_char(roll_arg)
       IN  out' = [op |-> "classify", exc |-> r.exc, val |-> r.val]
    /\ UNCHANGED <<cacheVars, reqVars, roll_arg, upstream>>

CallCatalog ==
    /\ out.op = "none"
    /\ HasRecords(upstream)
    /\ LET r == catalogar_padroes(upstream.records)
       IN  out' = [op |-> "catalog", exc |-> r.exc, val |-> r.val]
    /\ UNCHANGED <<cacheVars, reqVars, roll_arg, upstream>>

CallRanking ==
    /\ out.op = "none"
    /\ HasRecords(upstream)
    /\ LET r == formatar_ranking_por_digito(upstream.records)
       IN  out' = [op |-> "ranking", exc |-> r.exc, val |-> r.val]
    /\ UNCHANGED <<cacheVars, reqVars, roll_arg, upstream>>

CallFetch ==
    /\ out.op = "none"
    /\ LET r == fetch_and_process_blaze_data(upstream)
       IN  out' = [op |-> "fetch", exc |-> r.exc, val |-> r.val]
    /\ UNCHANGED <<cacheVars, reqVars, roll_arg, upstream>>

InitFnInputs ==
    /\ \/ roll_arg \in RollArgs /\ upstream = Failure("ConnectionError")
       \/ roll_arg = None /\ upstream \in Upstreams
    /\ out = NoOut
    /\ now = 0
    /\ InitCache
    /\ InitRequests

NextFn == CallClassifier \/ CallCatalog \/ CallRanking \/ CallFetch

SpecFn == InitFnInputs /\ [][NextFn]_vars

(***************************************************************************)
(* Properties of the cache, one request at a time (SpecSeq)                *)
(***************************************************************************)
PayloadKeys == {"grade_map", "padroes", "ranking_brancos_digito"}

ObsAge == obs.at - obs.before.timestamp

\* C2: on a populated slot, a get() at age <= 15 (age 15 included) makes no
\* upstream call, returns the stored payload and leaves the slot as it was;
\* a get() at age > 15 makes one upstream call and stores its result with
\* the time of the call.
C2_FreshHitStaleRefetch ==
    (obs.valid /\ obs.before_populated) =>
        /\ (ObsAge <= 15) =>
              /\ obs.calls = 0
              /\ obs.resp = obs.before.data
              /\ CACHE = obs.before
        /\ (ObsAge > 15) =>
              /\ obs.calls = 1
              /\ CACHE = [timestamp |-> obs.at, data |-> obs.fetched]
              /\ obs.resp = obs.fetched

C2_Witness_HitAtAge15 ==
    /\ obs.valid /\ obs.before_populated
    /\ ObsAge = 15
    /\ obs.calls = 0
    /\ obs.resp # EMPTY_PAYLOAD

\* C3: a get() whose fetch fails stores the all-empty payload with the time
\* of the call; every get() up to 15 seconds after a failed fetch makes no
\* upstream call and returns the all-empty payload, and a get() more than 15
\* seconds after it fetches again.
C3_FailedFetchResetsClock ==
    /\ (obs.valid /\ obs.calls = 1 /\ obs.failed) =>
          CACHE = [timestamp |-> obs.at, data |-> EMPTY_PAYLOAD]
    /\ (obs.valid /\ obs.before_fetch.any /\ obs.before_fetch.failed) =>
          /\ (obs.at - obs.before_fetch.at <= 15) =>
                (obs.calls = 0 /\ obs.resp = EMPTY_PAYLOAD)
          /\ (obs.at - obs.before_fetch.at > 15) => obs.calls = 1

C3_Witness_QuietAfterFailure ==
    /\ obs.valid /\ obs.before_fetch.any /\ obs.before_fetch.failed
    /\ obs.at - obs.before_fetch.at \in 1..15
    /\ obs.calls = 0
    /\ obs.resp = EMPTY_PAYLOAD

\* C4: a get() on a slot that was never populated calls the upstream for
\* every value of the clock, and its response carries the three maps.
C4_NeverPopulatedFetches ==
    (obs.valid /\ ~obs.before_populated) =>
        (obs.calls = 1 /\ DOMAIN obs.resp = PayloadKeys)

(***************************************************************************)
(* Property of concurrent requests (SpecConc)                              *)
(***************************************************************************)
\* request t has called fetch_and_process_blaze_data
HasFetched(t) ==
    /\ pc[t] \in {"store_data", "store_ts", "respond", "done"}
    /\ IsExpired(current_time[t], last_update[t])

\* C1: of the requests that read the same expired slot, at most one starts
\* an upstream fetch.
C1_AtMostOneFetch ==
    \A t1, t2 \in Requests :
        (t1 # t2 /\ seen[t1] = seen[t2]) => ~(HasFetched(t1) /\ HasFetched(t2))

(***************************************************************************)
(* Properties of the pure functions (SpecFn)                               *)
(*                                                                         *)
(* The expected results are stated from the rules of the specification:    *)
(* the classes by ranges of the outcome, the counts as cardinalities of    *)
(* sets of positions, the buckets as selections of positions in order.     *)
(***************************************************************************)
\* the classifier rule: Zero 'B', ClassA 'R', ClassB 'P', Unknown '?'
ClassOf(roll) ==
    IF roll.none THEN "?"
    ELSE IF roll.n = 0 THEN "B"
    ELSE IF roll.n \in 1..7 THEN "R"
    ELSE IF roll.n \in 8..14 THEN "P"
    ELSE "?"

\* the timestamp normalizes to a moment
Normalizes(ts) ==
    Truthy(ts) /\ get_brasilia_datetime(ts).exc = "" /\ get_brasilia_datetime(ts).val # -1

\* the timestamp normalizes to a moment whose minute mod 10 is d
NormalizesTo(ts, d) == Normalizes(ts) /\ (get_brasilia_datetime(ts).val % 60) % 10 = d

Motifs ==
    { <<"R3+", <<"R", "R", "R">> >>, <<"P3+", <<"P", "P", "P">> >>,
      <<"2x1 R", <<"R", "R", "P">> >>, <<"2x1 P", <<"P", "P", "R">> >>,
      <<"R4+", <<"R", "R", "R", "R">> >>, <<"P4+", <<"P", "P", "P", "P">> >>,
      <<"Tira (4) R", <<"R", "P", "R", "P">> >>,
      <<"Tira (4) P", <<"P", "R", "P", "R">> >> }

ExpectedPadroes(l) ==
    LET first == SubSeq(l, 1, Min(Len(l), 90))
        classes == [i \in 1..Len(first) |-> ClassOf(first[i].roll)]
        kept == SelectSeq(classes, LAMBDA c : c \in {"R", "P"})
        Count(m) ==
            Cardinality({i \in 0..(Len(kept) - 4) :
                            SubSeq(kept, i + 1, i + Len(m[2])) = m[2]})
        counted == {m \in Motifs : Count(m) > 0}
    IN  [k \in {m[1] : m \in counted} |->
            Count(CHOOSE m \in counted : m[1] = k)]

ExpectedRanking(l) ==
    LET Count(d) ==
            Cardinality({i \in 1..Len(l) :
                            /\ ClassOf(l[i].roll) = "B"
                            /\ NormalizesTo(l[i].created_at, d)})
    IN  [k \in {ToString(d) : d \in {e \in 0..9 : Count(e) > 0}} |->
            Count(CHOOSE d \in 0..9 : ToString(d) = k)]

ExpectedGrid(l) ==
    LET first == SubSeq(l, 1, Min(Len(l), 200))
        positions == [i \in 1..Len(first) |-> i]
        InBucket(i, d) ==
            (~first[i].roll.none) /\ NormalizesTo(first[i].created_at, d)
        Bucket(d) ==
            LET sel == SelectSeq(positions, LAMBDA i : InBucket(i, d))
            IN  [j \in 1..Len(sel) |->
                    ToString(first[sel[j]].roll.n) \o ClassOf(first[sel[j]].roll)]
    IN  [k \in {ToString(d) : d \in {e \in 0..9 : Bucket(e) # <<>>}} |->
            Bucket(CHOOSE d \in 0..9 : ToString(d) = k)]

\* a transport error, a non-2xx status, a timeout, a body that is not JSON or
\* not a list of records
FailureKinds == RequestExceptions \cup {"dict_no_records", "scalar"}

\* C5: one fetch-and-transform cycle never raises, its payload has exactly
\* the three keys, and whenever the upstream call or a processing step
\* fails the three maps are empty.
C5_FetchNeverRaises ==
    (out.op = "fetch") =>
        /\ out.exc = ""
        /\ DOMAIN out.val = PayloadKeys
        /\ (Failed(upstream) \/ upstream.kind \in FailureKinds)
              => out.val = EMPTY_PAYLOAD

C5_Witness_ProcessingFailure ==
    /\ out.op = "fetch"
    /\ upstream.kind = "list"
    /\ Len(upstream.records) > 1
    /\ Failed(upstream)
    /\ out.val = EMPTY_PAYLOAD

\* C7: the classifier never raises and returns 'B' for 0, 'R' for 1..7,
\* 'P' for 8..14 and '?' for every other input, None included.
C7_ClassifierTotal ==
    (out.op = "classify") => (out.exc = "" /\ out.val = ClassOf(roll_arg))

\* C8: for every record list the pattern catalog returns, for each of the
\* eight motifs, the number of windows of the filtered first 90 records
\* that match it, without zero-valued keys.
C8_PatternCounts ==
    (out.op = "catalog") =>
        (out.exc = "" /\ out.val = ExpectedPadroes(upstream.records))

\* C9: for every record list the digit ranking maps each digit to the number
\* of Zero records whose timestamp normalizes to that digit, skipping the
\* other timestamps without error, with no zero-valued key.
C9_DigitRanking ==
    (out.op = "ranking") =>
        (out.exc = "" /\ out.val = ExpectedRanking(upstream.records))

\* C10: for every successfully fetched feed the grid holds, per digit, the
\* tokens of the records among the first 200 that have an outcome and a
\* timestamp normalizing to that digit, in feed order, and nothing else.
C10_GridFromFeed ==
    (out.op = "fetch" /\ HasRecords(upstream)) =>
        out.val.grade_map = ExpectedGrid(upstream.records)

\* the records of the feed are complete or lack a field, with timestamps
\* that normalize
Lacking(r) == r.roll.none \/ r.created_at.kind = "None"

Complete(r) == (~r.roll.none) /\ Normalizes(r.created_at)

\* C6: a fetched list with a record that lacks its outcome or its timestamp
\* does not yield the all-empty payload: the grid, the pattern counts and
\* the ranking are those of the operations that can use each record.
C6_MalformedRecordSkipped ==
    LET l == upstream.records
    IN  ( /\ out.op = "fetch" /\ HasRecords(upstream)
          /\ \E i \in 1..Len(l) : Lacking(l[i])
          /\ \A i \in 1..Len(l) :
                (Lacking(l[i]) /\ l[i].created_at.year # 1) \/ Complete(l[i]) ) =>
            out.val = [grade_map |-> ExpectedGrid(l),
                       padroes |-> ExpectedPadroes(l),
                       ranking_brancos_digito |-> ExpectedRanking(l)]

====
